---------------------------- MODULE Spec2Model ----------------------------
(***************************************************************************)
(* Tournament state engine of match.py: the player registry (new_player,   *)
(* edit_player, list_players), the match ledger (go_match, delete_match,   *)
(* list_matches, latest_match, lookup_match), the swiss pairing            *)
(* (swiss_match), the win ranking (list_win_ranking) and the audit log     *)
(* (tools.logger, display_log).                                            *)
(*                                                                         *)
(* Strings the code inspects character by character (player names, codes,  *)
(* id arguments) are sequences of one-character strings.  The storage      *)
(* modules database.py and tools.py are not part of the sources at hand;   *)
(* the db_* operators and logger follow the storage contract of the        *)
(* specification document (sections 3, 4.5 and 6).                         *)
(***************************************************************************)
EXTENDS Integers, Sequences, FiniteSets, TLC

VARIABLES
    players,        \* table players: set of rows [id, name, country, code]
    matches,        \* table matches: set of rows [id, p1, p2, winner, timestamp]
    auditlog,       \* table auditlog: sequence of entry ids, in insertion order
    player_seq,     \* serial of players.id
    match_seq,      \* serial of matches.id
    swiss_pc,       \* position of swiss_match: "idle", "prompt" or "running"
    players_list1,  \* swiss_match local: players sorted ascending by id
    players_list2,  \* swiss_match local: players sorted descending by id
    bye,            \* swiss_match local: the popped player row, or <<>> ('')
    round_number,   \* swiss_match local
    last            \* the last command: [op, args, raised, msg, out]

vars == <<players, matches, auditlog, player_seq, match_seq, swiss_pc,
          players_list1, players_list2, bye, round_number, last>>

dbvars == <<players, matches, player_seq, match_seq>>
swissvars == <<swiss_pc, players_list1, players_list2, bye, round_number>>

---------------------------------------------------------------------------
(* Bounds of the model *)

MaxPlayers == 2
MaxSwissPlayers == 3
MaxMatches == 2
MaxRankMatches == 3
MaxLog == 13
MaxSwissLog == 24
MaxRegisterLog == 4
MaxResolveLog == 8
MaxEditLog == 11
MaxRankLog == 19
MaxMainLog == 9
MaxListLen == 24
MaxNameLen == 2

(* Program constants *)

RandLo == 1000001
RandHi == 9999999
MinNameLen == 2
CodePrefixLen == 4
LogCount == 20
LogCountAll == 9999999

---------------------------------------------------------------------------
(* Characters and strings *)

DigitSeq == <<"0", "1", "2", "3", "4", "5", "6", "7", "8", "9">>
UpperSeq == <<"A", "B", "C", "D", "E", "F", "G", "H", "I", "J", "K", "L", "M",
              "N", "O", "P", "Q", "R", "S", "T", "U", "V", "W", "X", "Y", "Z">>
LowerSeq == <<"a", "b", "c", "d", "e", "f", "g", "h", "i", "j", "k", "l", "m",
              "n", "o", "p", "q", "r", "s", "t", "u", "v", "w", "x", "y", "z">>

Range(s) == {s[i] : i \in DOMAIN s}

Digits == Range(DigitSeq)

\* the grave accent, which a string literal here cannot hold
Grave == "grave"

\* the character class of the second re.search of new_player: ! @ # $ % ^ & *
\* ( ) ~ grave + =
Symbols == {"!", "@", "#", "$", "%", "^", "&", "*", "(", ")", "~", Grave, "+", "="}

\* str.lower() on one character
LowerChar(c) ==
    IF \E i \in DOMAIN UpperSeq : UpperSeq[i] = c
    THEN LowerSeq[CHOOSE i \in DOMAIN UpperSeq : UpperSeq[i] = c]
    ELSE c

Lower(s) == [i \in DOMAIN s |-> LowerChar(s[i])]

\* s[:n]
Take(s, n) == SubSeq(s, 1, IF Len(s) < n THEN Len(s) ELSE n)

\* str(n) for n >= 0
RECURSIVE Str(_)
Str(n) ==
    IF n < 10 THEN <<DigitSeq[n + 1]>>
    ELSE Str(n \div 10) \o <<DigitSeq[(n % 10) + 1]>>

DigitVal(c) == CHOOSE d \in 0..9 : DigitSeq[d + 1] = c

\* the integer a string of digits denotes; -1 for a string that is none
RECURSIVE ParseInt(_)
ParseInt(s) ==
    IF s = <<>> \/ \E i \in DOMAIN s : s[i] \notin Digits THEN -1
    ELSE IF Len(s) = 1 THEN DigitVal(s[1])
    ELSE 10 * ParseInt(SubSeq(s, 1, Len(s) - 1)) + DigitVal(s[Len(s)])

\* number of whitespace-delimited tokens of s (len(s.split()))
RECURSIVE Tokens(_)
Tokens(s) ==
    IF s = <<>> THEN 0
    ELSE IF Head(s) = " " THEN Tokens(Tail(s))
    ELSE IF Len(s) = 1 \/ s[2] = " " THEN 1 + Tokens(Tail(s))
    ELSE Tokens(Tail(s))

\* every string over the characters cs of length at most n
RECURSIVE StringsUpTo(_, _)
StringsUpTo(cs, n) ==
    IF n = 0 THEN {<<>>}
    ELSE LET shorter == StringsUpTo(cs, n - 1)
         IN shorter \cup {Append(s, c) : s \in shorter, c \in cs}

---------------------------------------------------------------------------
(* Storage backend and audit log (database.py, tools.py) *)

\* rows of a table in ascending id order
RECURSIVE SortById(_)
SortById(rows) ==
    IF rows = {} THEN <<>>
    ELSE LET r == CHOOSE x \in rows : \A y \in rows : x.id <= y.id
         IN <<r>> \o SortById(rows \ {r})

\* a descending sort that leaves the list ascending
Reverse_Identity(s) == s

Reverse(s) == [i \in DOMAIN s |-> s[Len(s) + 1 - i]]

\* db.search("players", "ID", player)
db_search_players_ID(tbl, player) ==
    SortById({r \in tbl : r.id = ParseInt(player)})

\* db.search("players", "CODE", code)
db_search_players_CODE(tbl, code) ==
    SortById({r \in tbl : r.code = code})

\* db.search("players", "ALL", "null")
db_search_players_ALL(tbl) == SortById(tbl)

\* db.register_player(player_name, country, code)
db_register_player(tbl, seq, player_name, country, code) ==
    tbl \cup {[id |-> seq + 1, name |-> player_name, country |-> country,
               code |-> code]}

\* db.delete_player(player)
db_delete_player(tbl, player) ==
    {r \in tbl : r.id # ParseInt(player)}

\* db.update_player(player, player_name, player_country)
db_update_player(tbl, player, player_name, player_country) ==
    {IF r.id = ParseInt(player)
     THEN [r EXCEPT !.name = player_name, !.country = player_country]
     ELSE r : r \in tbl}

\* tools.logger(message, unit) called n times: n entries appended
RECURSIVE logger(_, _)
logger(log, n) ==
    IF n = 0 THEN log ELSE logger(Append(log, Len(log) + 1), n - 1)

---------------------------------------------------------------------------
(* Results of a command *)

Ok(op, args, out) ==
    [op |-> op, args |-> args, raised |-> "", msg |-> "", out |-> out]

Raise(op, args, exc, msg) ==
    [op |-> op, args |-> args, raised |-> exc, msg |-> msg, out |-> <<>>]

---------------------------------------------------------------------------
(* PLAYER ORIENTED FUNCTIONS *)

MsgNoPlayer == "One of the two players you entered doesn't exist."
MsgNumbers == "Player name is invalid (contains numbers)"
MsgShort == "Player name is less than 2 characters."
MsgSurname == "Player name is invalid. (missing surname)"
MsgSymbols == "Player name is invalid. (contains symbol(s))"

\* new_player without its first check (the re.search for a digit)
NameError_NoDigitCheck(player_name) ==
    IF Len(player_name) < MinNameLen THEN MsgShort
    ELSE IF \A i \in DOMAIN player_name : player_name[i] # " " THEN MsgSurname
    ELSE IF \E i \in DOMAIN player_name : player_name[i] \in Symbols THEN MsgSymbols
    ELSE ""

\* new_player without its last check (the re.search for a symbol)
NameError_NoSymbolCheck(player_name) ==
    IF \E i \in DOMAIN player_name : player_name[i] \in Digits THEN MsgNumbers
    ELSE IF Len(player_name) < MinNameLen THEN MsgShort
    ELSE IF \A i \in DOMAIN player_name : player_name[i] # " " THEN MsgSurname
    ELSE ""

\* the checks new_player makes of player_name, in order: the message of the
\* first one that fails, "" when the name passes
NameError(player_name) ==
    IF \E i \in DOMAIN player_name : player_name[i] \in Digits THEN MsgNumbers
    ELSE IF Len(player_name) < MinNameLen THEN MsgShort
    ELSE IF \A i \in DOMAIN player_name : player_name[i] # " " THEN MsgSurname
    ELSE IF \E i \in DOMAIN player_name : player_name[i] \in Symbols THEN MsgSymbols
    ELSE ""

\* code = player_name[:4].lower() + str(random.randrange(1000001, 9999999))
MakeCode(player_name, rnd) ==
    Lower(Take(player_name, CodePrefixLen)) \o Str(rnd)

\* new_player(player_name, country); typed is the answer to the raw_input
\* prompt, rnd the value random.randrange returns
new_player(player_name, country, typed, rnd) ==
    /\ swiss_pc # "running"
    /\ rnd \in RandLo..(RandHi - 1)
    /\ IF NameError(player_name) # ""
       THEN /\ last' = Raise("new_player", <<player_name>>, "AttributeError",
                             NameError(player_name))
            /\ UNCHANGED <<dbvars, auditlog>>
       ELSE LET c == IF country = "" THEN typed ELSE country
            IN /\ players' = db_register_player(players, player_seq, player_name,
                                                c, MakeCode(player_name, rnd))
               /\ player_seq' = player_seq + 1
               /\ auditlog' = logger(auditlog, 3)
               /\ last' = Ok("new_player", <<player_name>>, 0)
               /\ UNCHANGED <<matches, match_seq>>
    /\ UNCHANGED swissvars

MsgNoInfo == "EDIT chosen, but new info not given."
MsgInvalidId == "Invalid Player ID."

\* the delete branch without its search for the player
DeleteError_NoCheck(tbl, player) == ""

\* the check of the delete branch of edit_player: its message when it fails
DeleteError(tbl, player) ==
    IF db_search_players_ID(tbl, player) = <<>> THEN MsgInvalidId ELSE ""

\* the edit branch without its first check (new_name and new_country given)
EditError_NoInfoCheck(tbl, player, new_name, new_country) ==
    IF db_search_players_ID(tbl, player) = <<>> THEN MsgInvalidId
    ELSE ""

\* the checks of the edit branch of edit_player, in order: the message of the
\* first one that fails, "" when the edit goes through
EditError(tbl, player, new_name, new_country) ==
    IF new_name = <<>> \/ new_country = "" THEN MsgNoInfo
    ELSE IF db_search_players_ID(tbl, player) = <<>> THEN MsgInvalidId
    ELSE ""

\* the edit branch deriving the code anew from the new name
EditPlayers_Recode(tbl, player, new_name, new_country) ==
    {IF r.id = ParseInt(player)
     THEN [r EXCEPT !.name = new_name, !.country = new_country,
                    !.code = Lower(Take(new_name, CodePrefixLen))
                             \o SubSeq(r.code, Len(r.code) - 6, Len(r.code))]
     ELSE r : r \in tbl}

\* the players table the edit branch leaves: player_name = new_name,
\* player_country = new_country, db.update_player(player, ...)
EditPlayers(tbl, player, new_name, new_country) ==
    db_update_player(tbl, player, new_name, new_country)

\* edit_player(option, player, new_name, new_country).  It is not tied to the
\* session that runs the swiss matchups: a player can be edited or deleted
\* from another session while the rounds run.
edit_player(option, player, new_name, new_country) ==
    LET args == <<option, player, new_name, new_country>>
    IN /\ IF option = "delete"
          THEN IF DeleteError(players, player) # ""
               THEN /\ last' = Raise("edit_player", args, "AttributeError",
                                     DeleteError(players, player))
                    /\ UNCHANGED <<dbvars, auditlog>>
               ELSE /\ players' = db_delete_player(players, player)
                    /\ auditlog' = logger(auditlog, 1)
                    /\ last' = Ok("edit_player", args, 0)
                    /\ UNCHANGED <<matches, player_seq, match_seq>>
          ELSE IF option = "edit"
          THEN IF EditError(players, player, new_name, new_country) # ""
               THEN /\ last' = Raise("edit_player", args, "AttributeError",
                                     EditError(players, player, new_name,
                                               new_country))
                    /\ UNCHANGED <<dbvars, auditlog>>
               ELSE /\ players' = EditPlayers(players, player, new_name,
                                              new_country)
                    /\ auditlog' = logger(auditlog, 1)
                    /\ last' = Ok("edit_player", args, 0)
                    /\ UNCHANGED <<matches, player_seq, match_seq>>
          ELSE /\ last' = Raise("edit_player", args, "AttributeError",
                                "OPTION Not Supported")
               /\ UNCHANGED <<dbvars, auditlog>>
       /\ UNCHANGED swissvars

\* the rows list_players adds to its table: [count, id, name, country, code]
PlayerTable(results) ==
    [i \in DOMAIN results |->
        <<i, results[i].id, results[i].name, results[i].country, results[i].code>>]

\* list_players()
list_players ==
    /\ swiss_pc # "running"
    /\ auditlog' = logger(auditlog, 2)
    /\ last' = Ok("list_players", <<>>, PlayerTable(db_search_players_ALL(players)))
    /\ UNCHANGED <<dbvars, swissvars>>

---------------------------------------------------------------------------
(* MATCH ORIENTED FUNCTIONS *)

\* db.report_match writing over the latest row
db_report_match_Overwrite(tbl, seq, winner, player_1, player_2) ==
    {r \in tbl : r.id # seq}
        \cup {[id |-> seq + 1, p1 |-> player_1, p2 |-> player_2,
                winner |-> winner, timestamp |-> seq + 1]}

\* db.report_match(winner, player_1, player_2)
db_report_match(tbl, seq, winner, player_1, player_2) ==
    tbl \cup {[id |-> seq + 1, p1 |-> player_1, p2 |-> player_2,
               winner |-> winner, timestamp |-> seq + 1]}

\* db.delete_match(match)
db_delete_match(tbl, match) ==
    {r \in tbl : r.id # ParseInt(match)}

\* db.search("matches", "ALL", "null")
db_search_matches_ALL(tbl) == SortById(tbl)

\* db.search("matches", "ID", match)
db_search_matches_ID(tbl, match) ==
    SortById({r \in tbl : r.id = ParseInt(match)})

\* db.search("matches", "LATEST", "1")
db_search_matches_LATEST(tbl) ==
    IF tbl = {} THEN <<>>
    ELSE <<CHOOSE x \in tbl : \A y \in tbl : y.id <= x.id>>

\* the loops of go_match over code_lookup and player_name: the code of the
\* player with this id, and the name of the last row carrying that code
LookupCode(tbl, player) ==
    LET code_lookup == db_search_players_ID(tbl, player)
    IN IF code_lookup = <<>> THEN <<>> ELSE code_lookup[Len(code_lookup)].code

LookupName(tbl, player) ==
    LET player_name == db_search_players_CODE(tbl, LookupCode(tbl, player))
    IN IF db_search_players_ID(tbl, player) = <<>> \/ player_name = <<>>
       THEN <<>>
       ELSE player_name[Len(player_name)].name

\* go_match reporting the winner's name where the code belongs
Winner_Name(tbl, player_1, player_2, random_int) ==
    IF random_int = 2 THEN LookupName(tbl, player_1)
    ELSE LookupName(tbl, player_2)

\* If the random number is even: player 1 wins. Else: player 2 wins.
Winner(tbl, player_1, player_2, random_int) ==
    IF random_int = 2 THEN LookupCode(tbl, player_1)
    ELSE LookupCode(tbl, player_2)

\* go_match undoing every earlier row when it fails
GoMatch_Rollback(tbl, mtbl, mseq, log, player_1, player_2, random_int) ==
    IF LookupName(tbl, player_1) = <<>> \/ LookupName(tbl, player_2) = <<>>
    THEN [raised |-> "ValueError", msg |-> MsgNoPlayer,
          matches |-> {}, match_seq |-> mseq, auditlog |-> logger(log, 1)]
    ELSE [raised |-> "", msg |-> "",
          matches |-> db_report_match(mtbl, mseq,
                          Winner(tbl, player_1, player_2, random_int),
                          player_1, player_2),
          match_seq |-> mseq + 1, auditlog |-> logger(log, 4)]

\* go_match without its check of the two names
GoMatch_NoCheck(tbl, mtbl, mseq, log, player_1, player_2, random_int) ==
    [raised |-> "", msg |-> "",
     matches |-> db_report_match(mtbl, mseq,
                     Winner(tbl, player_1, player_2, random_int),
                     player_1, player_2),
     match_seq |-> mseq + 1, auditlog |-> logger(log, 4)]

\* go_match reporting the match before it checks the two names
GoMatch_ReportFirst(tbl, mtbl, mseq, log, player_1, player_2, random_int) ==
    [raised |-> IF LookupName(tbl, player_1) = <<>> \/ LookupName(tbl, player_2) = <<>>
                THEN "ValueError" ELSE "",
     msg |-> IF LookupName(tbl, player_1) = <<>> \/ LookupName(tbl, player_2) = <<>>
             THEN MsgNoPlayer ELSE "",
     matches |-> db_report_match(mtbl, mseq,
                     Winner(tbl, player_1, player_2, random_int),
                     player_1, player_2),
     match_seq |-> mseq + 1,
     auditlog |-> logger(log, 4)]

\* the body of go_match from its first tools.logger call on: the tables and
\* the log it leaves, and what it raised
GoMatch(tbl, mtbl, mseq, log, player_1, player_2, random_int) ==
    IF LookupName(tbl, player_1) = <<>> \/ LookupName(tbl, player_2) = <<>>
    THEN [raised |-> "ValueError",
          msg |-> MsgNoPlayer,
          matches |-> mtbl, match_seq |-> mseq, auditlog |-> logger(log, 1)]
    ELSE [raised |-> "", msg |-> "",
          matches |-> db_report_match(mtbl, mseq,
                          Winner(tbl, player_1, player_2, random_int),
                          player_1, player_2),
          match_seq |-> mseq + 1, auditlog |-> logger(log, 4)]

\* go_match("REG", player_1, player_2); typed_1 and typed_2 are the answers to
\* the raw_input prompts, random_int the value of random.randrange(1, 3)
go_match(player_1, player_2, typed_1, typed_2, random_int) ==
    LET p1 == IF player_1 = <<>> THEN typed_1 ELSE player_1
        p2 == IF player_2 = <<>> THEN typed_2 ELSE player_2
        r == GoMatch(players, matches, match_seq, auditlog, p1, p2, random_int)
    IN /\ swiss_pc # "running"
       /\ random_int \in 1..2
       /\ matches' = r.matches
       /\ match_seq' = r.match_seq
       /\ auditlog' = r.auditlog
       /\ last' = IF r.raised = ""
                  THEN Ok("go_match", <<p1, p2, player_1, player_2>>, 0)
                  ELSE Raise("go_match", <<p1, p2, player_1, player_2>>,
                             r.raised, r.msg)
       /\ UNCHANGED <<players, player_seq, swissvars>>

MsgNoMatchId == "An ID # is required."

\* delete_match(match): what db.delete_match answers is not looked at
delete_match(match) ==
    /\ swiss_pc # "running"
    /\ IF match = <<>>
       THEN /\ last' = Raise("delete_match", <<match>>, "ValueError",
                             MsgNoMatchId)
            /\ UNCHANGED <<dbvars, auditlog>>
       ELSE /\ matches' = db_delete_match(matches, match)
            /\ auditlog' = logger(auditlog, 1)
            /\ last' = Ok("delete_match", <<match>>, 0)
            /\ UNCHANGED <<players, player_seq, match_seq>>
    /\ UNCHANGED swissvars

\* the sentinel shown for a winner whose row is gone
PlayerDeleted == <<"[PLAYER DELETED]">>

\* the loop "for row in results" of list_matches, latest_match and
\* lookup_match.  name is the local variable of that name and bound tells
\* whether it has been assigned; reading it unassigned raises
\* UnboundLocalError.  acc holds the table rows added so far.
RECURSIVE MatchTable(_, _, _, _, _)
MatchTable(tbl, results, name, bound, acc) ==
    IF results = <<>> THEN [raised |-> "", rows |-> acc]
    ELSE LET row == Head(results)
             player == db_search_players_CODE(tbl, row.winner)
             name1 == IF player = <<>> THEN name ELSE player[Len(player)].name
             bound1 == bound \/ player # <<>>
             name2 == IF name1 = <<>> THEN PlayerDeleted ELSE name1
         IN IF ~bound1 THEN [raised |-> "UnboundLocalError", rows |-> acc]
            ELSE MatchTable(tbl, Tail(results), name2, TRUE,
                            Append(acc, <<Len(acc) + 1, row.id, row.p1, row.p2,
                                          name2, row.timestamp>>))

\* list_matches(): name is not assigned before the loop
list_matches ==
    LET t == MatchTable(players, db_search_matches_ALL(matches), <<>>, FALSE, <<>>)
    IN /\ swiss_pc # "running"
       /\ IF t.raised # ""
          THEN /\ auditlog' = logger(auditlog, 1)
               /\ last' = Raise("list_matches", <<>>, t.raised, "")
          ELSE /\ auditlog' = logger(auditlog, 2)
               /\ last' = Ok("list_matches", <<>>, t.rows)
       /\ UNCHANGED <<dbvars, swissvars>>

\* latest_match(): name is not assigned before the loop
latest_match ==
    LET t == MatchTable(players, db_search_matches_LATEST(matches), <<>>, FALSE, <<>>)
    IN /\ swiss_pc # "running"
       /\ IF t.raised # ""
          THEN /\ auditlog' = logger(auditlog, 1)
               /\ last' = Raise("latest_match", <<>>, t.raised, "")
          ELSE /\ auditlog' = logger(auditlog, 2)
               /\ last' = Ok("latest_match", <<>>, t.rows)
       /\ UNCHANGED <<dbvars, swissvars>>

\* lookup_match(match): name = '' before the loop
lookup_match(match) ==
    LET t == MatchTable(players, db_search_matches_ID(matches, match), <<>>, TRUE, <<>>)
    IN /\ swiss_pc # "running"
       /\ IF match = <<>>
          THEN /\ last' = Raise("lookup_match", <<match>>, "Exception",
                                "Missing a match ID.")
               /\ UNCHANGED auditlog
          ELSE /\ auditlog' = logger(auditlog, 2)
               /\ last' = Ok("lookup_match", <<match>>, t.rows)
       /\ UNCHANGED <<dbvars, swissvars>>

\* db.player_standings(): one row <<code, wins>> for every code that won a
\* match, most wins first
RECURSIVE db_player_standings(_, _)
db_player_standings(mtbl, codes) ==
    IF codes = {} THEN <<>>
    ELSE LET wins(c) == Cardinality({m \in mtbl : m.winner = c})
             top == CHOOSE c \in codes : \A d \in codes : wins(d) <= wins(c)
         IN <<(<<top, wins(top)>>)>> \o db_player_standings(mtbl, codes \ {top})

\* list_win_ranking putting each new row on top of the table
RECURSIVE RankingTable_Prepend(_, _, _, _)
RankingTable_Prepend(tbl, results, name, acc) ==
    IF results = <<>> THEN acc
    ELSE LET row == Head(results)
             player == db_search_players_CODE(tbl, row[1])
             name1 == IF player = <<>> THEN name ELSE player[Len(player)].name
             name2 == IF name1 = <<>> THEN <<"[PLAYER DELETED]">> ELSE name1
         IN RankingTable_Prepend(tbl, Tail(results), name2,
                                 <<(<<Len(acc) + 1, name2, row[2]>>)>> \o acc)

\* list_win_ranking leaving out the codes that belong to no player
RECURSIVE RankingTable_SkipDeleted(_, _, _, _)
RankingTable_SkipDeleted(tbl, results, name, acc) ==
    IF results = <<>> THEN acc
    ELSE LET row == Head(results)
             player == db_search_players_CODE(tbl, row[1])
         IN RankingTable_SkipDeleted(tbl, Tail(results), name,
                IF player = <<>> THEN acc
                ELSE Append(acc, <<Len(acc) + 1, player[Len(player)].name,
                                   row[2]>>))

\* list_win_ranking throwing away the matches it has counted
list_win_ranking_Consume ==
    /\ swiss_pc # "running"
    /\ auditlog' = logger(auditlog, 1)
    /\ matches' = {}
    /\ last' = Ok("list_win_ranking", <<>>,
                  [i \in 1..Cardinality({m.winner : m \in matches}) |->
                      <<i, <<"[PLAYER DELETED]">>, 1>>])
    /\ UNCHANGED <<players, player_seq, match_seq, swissvars>>

\* the loop "for row in results" of list_win_ranking: name = '' before the
\* loop and is carried from one row to the next
RECURSIVE RankingTable(_, _, _, _)
RankingTable(tbl, results, name, acc) ==
    IF results = <<>> THEN acc
    ELSE LET row == Head(results)
             player == db_search_players_CODE(tbl, row[1])
             name1 == IF player = <<>> THEN name ELSE player[Len(player)].name
             name2 == IF name1 = <<>> THEN PlayerDeleted ELSE name1
         IN RankingTable(tbl, Tail(results), name2,
                         Append(acc, <<Len(acc) + 1, name2, row[2]>>))

\* list_win_ranking()
list_win_ranking ==
    /\ swiss_pc # "running"
    /\ auditlog' = logger(auditlog, 1)
    /\ last' = Ok("list_win_ranking", <<>>,
                  RankingTable(players,
                      db_player_standings(matches, {m.winner : m \in matches}),
                      <<>>, <<>>))
    /\ UNCHANGED <<dbvars, swissvars>>

---------------------------------------------------------------------------
(* AUDIT LOG *)

\* db.search("auditlog", "LOGS", count): the count most recent entries
db_search_auditlog_LOGS(log, count) ==
    SubSeq(log, IF Len(log) > count THEN Len(log) - count + 1 ELSE 1, Len(log))

\* display_log emptying the log once all of it was shown
display_log_Clear(see_all) ==
    /\ swiss_pc # "running"
    /\ IF see_all = "Yes"
       THEN /\ auditlog' = <<>>
            /\ last' = Ok("display_log", <<see_all>>,
                          db_search_auditlog_LOGS(logger(auditlog, 6), LogCountAll))
       ELSE /\ auditlog' = logger(auditlog, 5)
            /\ last' = Ok("display_log", <<see_all>>,
                          db_search_auditlog_LOGS(logger(auditlog, 1), LogCount))
    /\ UNCHANGED <<dbvars, swissvars>>

\* display_log(); see_all is the answer to "Want to see all entries?".  The
\* first table is read after one tools.logger call, the second after six.
display_log(see_all) ==
    /\ swiss_pc # "running"
    /\ IF see_all = "Yes"
       THEN /\ auditlog' = logger(auditlog, 10)
            /\ last' = Ok("display_log", <<see_all>>,
                          db_search_auditlog_LOGS(logger(auditlog, 6), LogCountAll))
       ELSE /\ auditlog' = logger(auditlog, 5)
            /\ last' = Ok("display_log", <<see_all>>,
                          db_search_auditlog_LOGS(logger(auditlog, 1), LogCount))
    /\ UNCHANGED <<dbvars, swissvars>>

\* db.search("auditlog", "LOGS", count) on a log of n entries, whose ids are
\* 1..n in insertion order: the ids <<first, last>> of the entries returned
\* (the count most recent ones), <<1, 0>> for none
LogsRange(n, count) == <<IF n > count THEN n - count + 1 ELSE 1, n>>

\* the two tables of display_log on a log of n entries: the first is read
\* with count = 20 after one tools.logger call, the second, when see_all is
\* "Yes", with count = 9999999 after six
display_log_rows(n, see_all) ==
    /\ last' = Ok("display_log_rows", <<n, see_all>>,
                  <<LogsRange(n + 1, LogCount),
                    IF see_all = "Yes" THEN LogsRange(n + 6, LogCountAll)
                    ELSE <<>> >>)
    /\ UNCHANGED <<dbvars, auditlog, swissvars>>

---------------------------------------------------------------------------
(* SWISS MATCHUPS *)

\* db.count_players(): every player row; the order of the rows is the
\* backend's choice ("pure coincidence that the entries were in order")
db_count_players(tbl) ==
    {s \in [1..Cardinality(tbl) -> tbl] : \A i, j \in DOMAIN s : i # j => s[i] # s[j]}

\* zip(players_list1, players_list2): the matchups shown and run
Zip(list1, list2) ==
    [i \in 1..(IF Len(list1) < Len(list2) THEN Len(list1) ELSE Len(list2)) |->
        <<list1[i], list2[i]>>]

\* swiss_match leaving the odd player in the list
Popped_None(fetched) == fetched

\* players_list1 after "if count % 2: ... players_list1.pop(count - 1)"
Popped(fetched) ==
    IF Len(fetched) % 2 = 1 THEN SubSeq(fetched, 1, Len(fetched) - 1)
    ELSE fetched

\* swiss_match() up to its raw_input prompt; fetched is what
\* db.count_players() returned
swiss_match(fetched) ==
    LET count == Len(fetched)
        odd == count % 2 = 1
        popped == Popped(fetched)
    IN /\ swiss_pc = "idle"
       /\ fetched \in db_count_players(players)
       /\ bye' = IF odd THEN fetched[count] ELSE <<>>
       /\ players_list1' = SortById(Range(popped))
       /\ players_list2' = Reverse(SortById(Range(popped)))
       /\ round_number' = 0
       /\ auditlog' = logger(auditlog, IF odd THEN 6 ELSE 5)
       /\ swiss_pc' = "prompt"
       /\ last' = Ok("swiss_match", <<>>,
                     [a |-> SortById(Range(popped)),
                      b |-> Reverse(SortById(Range(popped))),
                      bye |-> IF odd THEN fetched[count] ELSE <<>>])
       /\ UNCHANGED dbvars

\* swiss_match reading the players anew when the answer is yes
swiss_answer_Recompute(run_swiss_matchup) ==
    /\ swiss_pc = "prompt"
    /\ auditlog' = logger(auditlog, 1)
    /\ IF run_swiss_matchup \in {"Yes", "Y", "y"} /\ players # {}
       THEN /\ swiss_pc' = "running"
            /\ players_list1' = SortById(players)
            /\ players_list2' = Reverse(SortById(players))
            /\ UNCHANGED <<bye, round_number>>
       ELSE /\ swiss_pc' = "idle"
            /\ players_list1' = <<>>
            /\ players_list2' = <<>>
            /\ bye' = <<>>
            /\ round_number' = 0
    /\ last' = Ok("swiss_answer", <<run_swiss_matchup>>, 0)
    /\ UNCHANGED dbvars

\* swiss_match running the rounds whatever the answer
swiss_answer_Always(run_swiss_matchup) ==
    /\ swiss_pc = "prompt"
    /\ auditlog' = logger(auditlog, 1)
    /\ IF players_list1 # <<>>
       THEN /\ swiss_pc' = "running"
            /\ UNCHANGED <<players_list1, players_list2, bye, round_number>>
       ELSE /\ swiss_pc' = "idle"
            /\ players_list1' = <<>>
            /\ players_list2' = <<>>
            /\ bye' = <<>>
            /\ round_number' = 0
    /\ last' = Ok("swiss_answer", <<run_swiss_matchup>>, 0)
    /\ UNCHANGED dbvars

\* the answer to "Do you want to run matches through this list of players?"
swiss_answer(run_swiss_matchup) ==
    /\ swiss_pc = "prompt"
    /\ auditlog' = logger(auditlog, 1)
    /\ IF run_swiss_matchup \in {"Yes", "Y", "y"} /\ players_list1 # <<>>
       THEN /\ swiss_pc' = "running"
            /\ UNCHANGED <<players_list1, players_list2, bye, round_number>>
       ELSE /\ swiss_pc' = "idle"
            /\ players_list1' = <<>>
            /\ players_list2' = <<>>
            /\ bye' = <<>>
            /\ round_number' = 0
    /\ last' = Ok("swiss_answer", <<run_swiss_matchup>>, 0)
    /\ UNCHANGED dbvars

\* one pass of "for a, b in zip(players_list1, players_list2)"
swiss_round(random_int) ==
    LET i == round_number + 1
        a == Zip(players_list1, players_list2)[i][1]
        b == Zip(players_list1, players_list2)[i][2]
        r == GoMatch(players, matches, match_seq, logger(auditlog, 1),
                     Str(a.id), Str(b.id), random_int)
        done == r.raised # "" \/ i = Len(Zip(players_list1, players_list2))
    IN /\ swiss_pc = "running"
       /\ random_int \in 1..2
       /\ matches' = r.matches
       /\ match_seq' = r.match_seq
       /\ auditlog' = IF r.raised = "" THEN logger(r.auditlog, 1) ELSE r.auditlog
       /\ swiss_pc' = IF done THEN "idle" ELSE "running"
       /\ players_list1' = IF done THEN <<>> ELSE players_list1
       /\ players_list2' = IF done THEN <<>> ELSE players_list2
       /\ bye' = IF done THEN <<>> ELSE bye
       /\ round_number' = IF done THEN 0 ELSE i
       /\ last' = IF r.raised = ""
                  THEN Ok("swiss_round", <<i, Str(a.id), Str(b.id)>>, 0)
                  ELSE Raise("swiss_round", <<i, Str(a.id), Str(b.id)>>,
                             r.raised, r.msg)
       /\ UNCHANGED <<players, player_seq>>

---------------------------------------------------------------------------
(* ROUTING LOGIC *)

\* main(): "if args.delete_player: edit_player(option="delete", player=...)";
\* an empty argument is false and runs nothing
main_delete_player(arg) ==
    IF arg # <<>> THEN edit_player("delete", arg, <<>>, "")
    ELSE /\ last' = Ok("main", <<"--delete-player", arg>>, 0)
         /\ UNCHANGED <<dbvars, auditlog, swissvars>>

\* main(): "if args.edit_player: edit_player(option="edit", player=...)";
\* new_name and new_country keep their default ''
main_edit_player(arg) ==
    IF arg # <<>> THEN edit_player("edit", arg, <<>>, "")
    ELSE /\ last' = Ok("main", <<"--edit-player", arg>>, 0)
         /\ UNCHANGED <<dbvars, auditlog, swissvars>>

---------------------------------------------------------------------------
Init ==
    /\ players = {}
    /\ matches = {}
    /\ auditlog = <<>>
    /\ player_seq = 0
    /\ match_seq = 0
    /\ swiss_pc = "idle"
    /\ players_list1 = <<>>
    /\ players_list2 = <<>>
    /\ bye = <<>>
    /\ round_number = 0
    /\ last = Ok("init", <<>>, 0)

\* names over a small alphabet: a letter, the blank, a digit, a symbol
NameChars == {"J", " ", "1", "!"}

\* a command starts only while the audit log is shorter than n
LogBelow(n) == Len(auditlog) < n

\* a name that passes new_player's checks comes only while the serial of
\* players.id is below n
Room(player_name, n) == NameError(player_name) = "" => player_seq < n

\* a match is started only while the serial of matches.id is below n
MatchRoom(n) == match_seq < n

\* the session is not in the middle of the swiss rounds
Idle == swiss_pc # "running"

NameInputs == StringsUpTo(NameChars, MaxNameLen)

RegisterNext ==
    \E player_name \in NameInputs, rnd \in {RandLo, RandLo + 1} :
        /\ LogBelow(MaxRegisterLog)
        /\ Room(player_name, MaxPlayers)
        /\ new_player(player_name, "US", "US", rnd)

SpecRegister == Init /\ [][RegisterNext]_vars

\* the inputs of the commands
PlayerNames == {<<"J", "o", " ", "D", "e">>, <<"J", "1">>}
EditNames == {<<>>, <<"A", "l", " ", "B">>}
Countries == {"", "US"}
PlayerIds == {Str(i) : i \in 1..MaxPlayers}
MatchIds == {Str(i) : i \in 1..MaxMatches}

Next ==
    \/ \E player_name \in PlayerNames, country \in Countries,
          rnd \in {RandLo, RandLo + 1} :
          /\ LogBelow(MaxLog)
          /\ Room(player_name, MaxPlayers)
          /\ new_player(player_name, country, "US", rnd)
    \/ \E player \in PlayerIds :
          LogBelow(MaxLog) /\ Idle /\ edit_player("delete", player, <<>>, "")
    \/ \E player \in PlayerIds, new_name \in EditNames :
          /\ LogBelow(MaxLog)
          /\ Idle
          /\ edit_player("edit", player, new_name, "Guam")
    \/ LogBelow(MaxLog) /\ list_players
    \/ \E player_1, player_2 \in PlayerIds, random_int \in 1..2 :
          /\ LogBelow(MaxLog)
          /\ MatchRoom(MaxMatches)
          /\ go_match(player_1, player_2, <<>>, <<>>, random_int)
    \/ \E match \in MatchIds : LogBelow(MaxLog) /\ delete_match(match)
    \/ LogBelow(MaxLog) /\ list_matches
    \/ LogBelow(MaxLog) /\ latest_match
    \/ \E match \in MatchIds : LogBelow(MaxLog) /\ lookup_match(match)
    \/ LogBelow(MaxLog) /\ list_win_ranking
    \/ \E see_all \in {"Yes", "No"} : LogBelow(MaxLog) /\ display_log(see_all)
    \/ \E fetched \in db_count_players(players) :
          LogBelow(MaxLog) /\ swiss_match(fetched)
    \/ \E run_swiss_matchup \in {"Y", "n"} :
          LogBelow(MaxLog) /\ swiss_answer(run_swiss_matchup)
    \/ \E random_int \in 1..2 :
          LogBelow(MaxLog) /\ MatchRoom(MaxMatches) /\ swiss_round(random_int)

Spec == Init /\ [][Next]_vars

\* the swiss matchup with the registrations and deletions that may come
\* before it, between its listing and its run, between its rounds (from
\* another session) and after it
SwissIds == {Str(i) : i \in 1..MaxSwissPlayers}

SwissNext ==
    \/ \E player_name \in PlayerNames :
          /\ LogBelow(MaxSwissLog)
          /\ Room(player_name, MaxSwissPlayers)
          /\ new_player(player_name, "US", "US", RandLo)
    \/ \E player \in SwissIds :
          LogBelow(MaxSwissLog) /\ edit_player("delete", player, <<>>, "")
    \/ \E fetched \in db_count_players(players) :
          LogBelow(MaxSwissLog) /\ swiss_match(fetched)
    \/ \E run_swiss_matchup \in {"Y", "n"} :
          LogBelow(MaxSwissLog) /\ swiss_answer(run_swiss_matchup)
    \/ \E random_int \in 1..2 :
          LogBelow(MaxSwissLog) /\ MatchRoom(MaxMatches) /\ swiss_round(random_int)

SpecSwiss == Init /\ [][SwissNext]_vars

\* edit_player with every combination of given and missing arguments, among
\* registrations and deletions
EditNext ==
    \/ \E player_name \in PlayerNames, rnd \in {RandLo, RandLo + 1} :
          /\ LogBelow(MaxEditLog)
          /\ Room(player_name, MaxPlayers)
          /\ new_player(player_name, "US", "US", rnd)
    \/ \E player \in PlayerIds, option \in {"delete", "bad"} :
          LogBelow(MaxEditLog) /\ Idle /\ edit_player(option, player, <<>>, "")
    \/ \E player \in PlayerIds \cup {<<"A">>},
          new_name \in EditNames \cup {<<"X", "9">>},
          new_country \in {"", "Guam"} :
          /\ LogBelow(MaxEditLog)
          /\ Idle
          /\ edit_player("edit", player, new_name, new_country)
    \/ \E player_1, player_2 \in PlayerIds, random_int \in 1..2 :
          /\ LogBelow(MaxEditLog)
          /\ MatchRoom(MaxMatches)
          /\ go_match(player_1, player_2, <<>>, <<>>, random_int)

SpecEdit == Init /\ [][EditNext]_vars

\* go_match with id arguments of every shape: ids of players, a letter, a
\* symbol after a digit, and no argument (the id is then typed at the prompt)
ResolveIds == PlayerIds \cup {<<"A">>, <<"1", "$">>, <<>>}

ResolveNext ==
    \/ \E player_name \in PlayerNames :
          /\ LogBelow(MaxResolveLog)
          /\ Room(player_name, MaxPlayers)
          /\ new_player(player_name, "US", "US", RandLo)
    \/ \E player \in PlayerIds :
          LogBelow(MaxResolveLog) /\ Idle /\ edit_player("delete", player, <<>>, "")
    \/ \E player_1, player_2 \in ResolveIds, typed \in {<<>>, <<"1">>},
          random_int \in 1..2 :
          /\ LogBelow(MaxResolveLog)
          /\ MatchRoom(MaxMatches)
          /\ go_match(player_1, player_2, typed, typed, random_int)

SpecResolve == Init /\ [][ResolveNext]_vars

\* the win ranking over ledgers of up to MaxRankMatches matches, with the
\* registrations, edits and deletions of players that change what it shows;
\* the matches are between two different players, lower id first (the
\* ranking reads only the winner of a match)
RankNext ==
    \/ \E rnd \in {RandLo, RandLo + 1} :
          /\ LogBelow(MaxRankLog)
          /\ Room(<<"J", "o", " ", "D", "e">>, MaxPlayers)
          /\ new_player(<<"J", "o", " ", "D", "e">>, "US", "US", rnd)
    \/ \E player \in PlayerIds :
          LogBelow(MaxRankLog) /\ Idle /\ edit_player("delete", player, <<>>, "")
    \/ \E player \in PlayerIds :
          /\ LogBelow(MaxRankLog)
          /\ Idle
          /\ edit_player("edit", player, <<"A", "l", " ", "B">>, "Guam")
    \/ \E player_1, player_2 \in PlayerIds, random_int \in 1..2 :
          /\ LogBelow(MaxRankLog)
          /\ MatchRoom(MaxRankMatches)
          /\ ParseInt(player_1) < ParseInt(player_2)
          /\ go_match(player_1, player_2, <<>>, <<>>, random_int)
    \/ LogBelow(MaxRankLog) /\ list_win_ranking

SpecRank == Init /\ [][RankNext]_vars

\* display_log on audit logs of few entries and of about 9999999 entries,
\* each log given by its number of entries
LogLengths ==
    (0..MaxListLen) \cup ((LogCountAll - MaxListLen)..(LogCountAll + MaxListLen))

AuditNext ==
    \E n \in LogLengths, see_all \in {"Yes", "No"} : display_log_rows(n, see_all)

SpecAudit == Init /\ [][AuditNext]_vars

\* the player commands as main() dispatches them: the id arguments are those
\* of players, a letter and the empty string
MainIds == PlayerIds \cup {<<"A">>, <<>>}

MainNext ==
    \/ \E player_name \in PlayerNames, rnd \in {RandLo, RandLo + 1} :
          /\ LogBelow(MaxMainLog)
          /\ Room(player_name, MaxPlayers)
          /\ new_player(player_name, "", "US", rnd)
    \/ \E arg \in MainIds : LogBelow(MaxMainLog) /\ Idle /\ main_delete_player(arg)
    \/ \E arg \in MainIds : LogBelow(MaxMainLog) /\ Idle /\ main_edit_player(arg)

SpecMain == Init /\ [][MainNext]_vars

---------------------------------------------------------------------------
(* Properties *)

MutatingOps == {"new_player", "edit_player", "go_match", "delete_match"}
ReadOnlyOps == {"list_players", "list_matches", "latest_match", "lookup_match",
                "list_win_ranking", "display_log"}
ListingOps == {"list_matches", "latest_match", "lookup_match"}

HasDigit(name) == \E i \in DOMAIN name : name[i] \in Digits
HasSymbol(name) == \E i \in DOMAIN name : name[i] \in Symbols

\* the messages of the name rules that name breaks
ViolatedRules(name) ==
    (IF HasDigit(name) THEN {MsgNumbers} ELSE {})
    \cup (IF Len(name) < 2 THEN {MsgShort} ELSE {})
    \cup (IF Tokens(name) < 2 THEN {MsgSurname} ELSE {})
    \cup (IF HasSymbol(name) THEN {MsgSymbols} ELSE {})

PlayerExists(player) == \E r \in players : r.id = ParseInt(player)

\* C1: a successful register, edit, delete player, resolve or delete match
\* makes the audit log exactly one entry longer, and a read-only command
\* (list players, list / latest / lookup match, rank, show audit log) leaves
\* its length unchanged.
C1_AuditLogLength ==
    [][/\ (last'.op \in MutatingOps /\ last'.raised = "")
            => Len(auditlog') = Len(auditlog) + 1
       /\ last'.op \in ReadOnlyOps => Len(auditlog') = Len(auditlog)]_vars

\* C2: deleting a player keeps every match, and a listing of matches (all,
\* latest, by id) made afterwards does not fail and shows the "player
\* deleted" sentinel as the winner of every match whose winner_code belongs
\* to no player, wherever the match sits in the listing.
C2_DeletedWinnerListed ==
    [][/\ (last'.op = "edit_player" /\ last'.raised = "") => matches' = matches
       /\ last'.op \in ListingOps =>
            /\ last'.raised = ""
            /\ \A i \in DOMAIN last'.out :
                 \A m \in matches :
                    (m.id = last'.out[i][2]
                     /\ ~ \E r \in players : r.code = m.winner)
                    => last'.out[i][5] = PlayerDeleted]_vars

\* C3: for an odd pool of n players the swiss pairing yields (n-1)/2 pairs and
\* one bye; for an even pool, n/2 pairs and no bye.
C3_PairCount ==
    last.op = "swiss_match" =>
        LET n == Cardinality(players)
            pairs == Zip(players_list1, players_list2)
        IN IF n % 2 = 1
           THEN Len(pairs) = (n - 1) \div 2 /\ bye # <<>>
           ELSE Len(pairs) = n \div 2 /\ bye = <<>>

\* C4: go_match called with the ids of two different existing players adds
\* exactly one match row, which holds both ids and whose winner is the code of
\* one of the two players.
C4_ResolveAddsOneMatch ==
    [][(/\ last'.op = "go_match"
        /\ last'.args[1] # last'.args[2]
        /\ PlayerExists(last'.args[1])
        /\ PlayerExists(last'.args[2]))
       => /\ last'.raised = ""
          /\ \E m \in matches' :
               /\ m \notin matches
               /\ matches' = matches \cup {m}
               /\ m.p1 = last'.args[1]
               /\ m.p2 = last'.args[2]
               /\ m.winner \in {LookupCode(players, last'.args[1]),
                                LookupCode(players, last'.args[2])}]_vars

C4_Witness ==
    /\ last.op = "go_match"
    /\ last.raised = ""
    /\ last.args[1] # last.args[2]
    /\ PlayerExists(last.args[1])
    /\ PlayerExists(last.args[2])
    /\ \E m \in matches : m.id = match_seq /\ m.p1 = last.args[1]

\* C5: every match row, whether go_match was called directly or by the swiss
\* matchup, references two different players, and its winner is the code of
\* one of the two as it was when the row was written.
C5_MatchPlayersDistinct ==
    [][\A m \in matches' \ matches :
          /\ m.p1 # m.p2
          /\ m.winner \in {LookupCode(players, m.p1),
                           LookupCode(players, m.p2)}]_vars

\* C6: no two players have the same code.
C6_CodesUnique ==
    \A p, q \in players : p.id # q.id => p.code # q.code

\* C7: the swiss matchup on an empty player table fails: it shows no matchups
\* and does not come to its prompt.
C7_EmptyPoolFails ==
    (last.op = "swiss_match" /\ players = {})
        => (last.raised # "" /\ swiss_pc # "prompt")

\* C8: new_player rejects every name of fewer than two whitespace-delimited
\* tokens or fewer than 2 characters, and creates no player.
C8_OneTokenRejected ==
    [][(/\ last'.op = "new_player"
        /\ (Tokens(last'.args[1]) < 2 \/ Len(last'.args[1]) < 2))
       => /\ last'.raised = "AttributeError"
          /\ players' = players
          /\ player_seq' = player_seq]_vars

\* C9: new_player rejects every name that holds a digit, and creates no
\* player.
C9_DigitRejected ==
    [][(last'.op = "new_player" /\ HasDigit(last'.args[1]))
       => /\ last'.raised = "AttributeError"
          /\ players' = players
          /\ player_seq' = player_seq]_vars

C9_Witness ==
    /\ last.op = "new_player"
    /\ HasDigit(last.args[1])
    /\ Len(last.args[1]) >= 2
    /\ \E i \in DOMAIN last.args[1] : last.args[1][i] = " "
    /\ last.raised = "AttributeError"
    /\ players # {}

\* C10: new_player rejects every name that holds one of the disallowed
\* symbols, with a message naming a rule that the name breaks, and creates no
\* player.
C10_SymbolRejected ==
    [][(last'.op = "new_player" /\ HasSymbol(last'.args[1]))
       => /\ last'.raised = "AttributeError"
          /\ last'.msg \in ViolatedRules(last'.args[1])
          /\ players' = players
          /\ player_seq' = player_seq]_vars

C10_Witness ==
    /\ last.op = "new_player"
    /\ HasSymbol(last.args[1])
    /\ last.raised = "AttributeError"
    /\ last.msg = MsgSymbols
    /\ players # {}

\* the id arguments go_match takes as they are: digits only, denoting a
\* positive integer
WellFormedId(id) ==
    /\ id # <<>>
    /\ \A i \in DOMAIN id : id[i] \in Digits
    /\ ParseInt(id) > 0

\* C11: new_player with a name that breaks no rule (and a country) succeeds,
\* adds exactly one player row, and returns the id of that row, which is none
\* of the ids given out before (1..player_seq, deleted players included).
C11_RegisterReturnsFreshId ==
    [][(last'.op = "new_player" /\ ViolatedRules(last'.args[1]) = {})
       => /\ last'.raised = ""
          /\ \E r \in players' :
               /\ r \notin players
               /\ players' = players \cup {r}
               /\ r.id \notin 1..player_seq
               /\ \A q \in players : q.id # r.id
               /\ last'.out = r.id]_vars

C13_ResolveValidates ==
    [][(/\ last'.op = "go_match"
        /\ (~ WellFormedId(last'.args[3]) \/ ~ WellFormedId(last'.args[4])))
       => /\ last'.raised # ""
          /\ last'.msg # MsgNoPlayer
          /\ matches' = matches
          /\ match_seq' = match_seq]_vars

\* the players that are not in the bye slot
NonBye == players \ {bye}

\* the number of rows of S with an id below (above) that of r, plus one
RankAscending(r, S) == Cardinality({q \in S : q.id < r.id}) + 1
RankDescending(r, S) == Cardinality({q \in S : q.id > r.id}) + 1

\* C14: in the matchups swiss_match generates, the i-th matchup pairs the
\* player with the i-th smallest id among the players not on bye with the
\* player with the i-th largest id among them.
C14_PairingSymmetric ==
    last.op = "swiss_match" =>
        \A i \in DOMAIN Zip(players_list1, players_list2) :
            LET a == Zip(players_list1, players_list2)[i][1]
                b == Zip(players_list1, players_list2)[i][2]
            IN /\ a \in NonBye
               /\ b \in NonBye
               /\ RankAscending(a, NonBye) = i
               /\ RankDescending(b, NonBye) = i

C14_Witness ==
    /\ last.op = "swiss_match"
    /\ bye # <<>>
    /\ Len(Zip(players_list1, players_list2)) >= 2
    /\ Zip(players_list1, players_list2)[1][1].id
         < Zip(players_list1, players_list2)[1][2].id

\* C15: when the number of players is odd, the player swiss_match puts in the
\* bye slot is the one with the largest id, in whatever order
\* db.count_players() returned the rows.
C15_ByeIsLargestId ==
    (last.op = "swiss_match" /\ Cardinality(players) % 2 = 1)
        => /\ bye \in players
           /\ \A q \in players : q.id <= bye.id

\* C16: no round of a confirmed swiss run passes the player in the bye slot
\* to go_match, as player 1 or as player 2, and no match row a round writes
\* holds the id of that player.
C16_ByeNeverResolved ==
    [][(last'.op = "swiss_round" /\ bye # <<>>)
       => /\ last'.args[2] # Str(bye.id)
          /\ last'.args[3] # Str(bye.id)
          /\ \A m \in matches' \ matches :
               m.p1 # Str(bye.id) /\ m.p2 # Str(bye.id)]_vars

C16_Witness ==
    /\ last.op = "swiss_round"
    /\ last.raised = ""
    /\ swiss_pc = "running"
    /\ bye \in players
    /\ \E m \in matches : m.id = match_seq /\ m.p1 = last.args[2]

\* C17: when go_match fails in a round of a confirmed swiss run that is not
\* the last of the list, the run goes on with the next matchup of the list.
C17_FailedRoundOnly ==
    [][(/\ last'.op = "swiss_round"
        /\ last'.raised # ""
        /\ round_number + 1 < Len(Zip(players_list1, players_list2)))
       => /\ swiss_pc' = "running"
          /\ round_number' = round_number + 1
          /\ players_list1' = players_list1
          /\ players_list2' = players_list2]_vars

\* C18: a round of a swiss run removes no match row, and a round in which
\* go_match fails leaves the matches table as the rounds before it left it.
C18_NoRollback ==
    [][last'.op = "swiss_round"
       => /\ matches \subseteq matches'
          /\ last'.raised # "" => (matches' = matches /\ match_seq' = match_seq)]_vars

C18_Witness ==
    /\ last.op = "swiss_round"
    /\ last.raised = "ValueError"
    /\ last.args[1] >= 2
    /\ \E m \in matches :
         m.id = match_seq /\ m.p1 = last.args[3] /\ m.p2 = last.args[2]

\* C19: the edit branch of edit_player fails with the missing-information
\* error when the new name or the new country is not given, and with the
\* invalid-id error when both are given and the id is that of no player; in
\* both cases the players table is unchanged.
C19_EditErrors ==
    [][(last'.op = "edit_player" /\ last'.args[1] = "edit")
       => /\ (last'.args[3] = <<>> \/ last'.args[4] = "")
               => /\ last'.raised # ""
                  /\ last'.msg = MsgNoInfo
                  /\ players' = players
          /\ (/\ last'.args[3] # <<>>
              /\ last'.args[4] # ""
              /\ ~ PlayerExists(last'.args[2]))
               => /\ last'.raised # ""
                  /\ last'.msg = MsgInvalidId
                  /\ players' = players]_vars

C19_Witness ==
    /\ last.op = "edit_player"
    /\ last.args[1] = "edit"
    /\ last.args[3] = <<>>
    /\ last.args[4] # ""
    /\ PlayerExists(last.args[2])
    /\ last.raised = "AttributeError"
    /\ last.msg = MsgNoInfo

\* C20: a successful edit replaces the row of the target player by the same
\* row with the new name and the new country (same id, same code), and leaves
\* every other player row and every match row as it was.
C20_EditFrame ==
    [][(last'.op = "edit_player" /\ last'.args[1] = "edit" /\ last'.raised = "")
       => /\ matches' = matches
          /\ match_seq' = match_seq
          /\ player_seq' = player_seq
          /\ \E r \in players :
               /\ r.id = ParseInt(last'.args[2])
               /\ players' = (players \ {r})
                              \cup {[r EXCEPT !.name = last'.args[3],
                                              !.country = last'.args[4]]}]_vars

C20_Witness ==
    /\ last.op = "edit_player"
    /\ last.args[1] = "edit"
    /\ last.raised = ""
    /\ Cardinality(players) = 2
    /\ matches # {}
    /\ \E r \in players :
         /\ r.id = ParseInt(last.args[2])
         /\ r.name = last.args[3]
         /\ Take(r.code, CodePrefixLen) # Lower(Take(r.name, CodePrefixLen))

MatchExists(match) == \E m \in matches : m.id = ParseInt(match)

\* C21: deleting a player by an id that is the id of no player fails with the
\* invalid-id error and changes no table; deleting by the id of a player
\* removes the row with that id and no other, and leaves every match row.
C21_DeletePlayer ==
    [][(last'.op = "edit_player" /\ last'.args[1] = "delete")
       => IF PlayerExists(last'.args[2])
          THEN /\ last'.raised = ""
               /\ players' = {r \in players : r.id # ParseInt(last'.args[2])}
               /\ Cardinality(players') = Cardinality(players) - 1
               /\ matches' = matches
          ELSE /\ last'.raised # ""
               /\ last'.msg = MsgInvalidId
               /\ players' = players
               /\ matches' = matches
               /\ auditlog' = auditlog]_vars

C21_Witness ==
    /\ last.op = "edit_player"
    /\ last.args[1] = "delete"
    /\ last.raised = ""
    /\ Cardinality(players) = 1
    /\ \E m \in matches : m.p1 = last.args[2] \/ m.p2 = last.args[2]

\* C22: delete_match with an id that is the id of no match fails, removes no
\* row and adds no audit entry; with the id of a match it removes the row
\* with that id and no other.
C22_DeleteMatch ==
    [][(last'.op = "delete_match" /\ last'.args[1] # <<>>)
       => IF MatchExists(last'.args[1])
          THEN /\ last'.raised = ""
               /\ matches' = {m \in matches : m.id # ParseInt(last'.args[1])}
          ELSE /\ last'.raised # ""
               /\ matches' = matches
               /\ auditlog' = auditlog]_vars

\* the codes that won a match, and the number of matches a code won
WinnerCodes == {m.winner : m \in matches}
Wins(code) == Cardinality({m \in matches : m.winner = code})

RECURSIVE SumWins(_)
SumWins(rows) == IF rows = <<>> THEN 0 ELSE Head(rows)[3] + SumWins(Tail(rows))

\* C23: in the table of list_win_ranking the win count of a row is at least
\* the win count of the row after it.
C23_RankingDescending ==
    last.op = "list_win_ranking" =>
        \A i \in 1..(Len(last.out) - 1) : last.out[i][3] >= last.out[i + 1][3]

C23_Witness ==
    /\ last.op = "list_win_ranking"
    /\ Len(last.out) = 2
    /\ last.out[1][3] > last.out[2][3]

C25_RankingCounts ==
    last.op = "list_win_ranking" =>
        /\ Len(last.out) = Cardinality(WinnerCodes)
        /\ \E f \in [1..Len(last.out) -> WinnerCodes] :
              /\ \A i, j \in DOMAIN f : i # j => f[i] # f[j]
              /\ \A i \in DOMAIN f : last.out[i][3] = Wins(f[i])
        /\ SumWins(last.out) = Cardinality(matches)

C25_Witness ==
    /\ last.op = "list_win_ranking"
    /\ Len(last.out) = 1
    /\ last.out[1][3] = 2
    /\ Cardinality(matches) = 2
    /\ \E p \in players : p.code \notin WinnerCodes

\* C26: in the table of list_win_ranking a row for a code that belongs to no
\* player shows the "player deleted" sentinel, and a row for any other code
\* shows the name of a player that has that code, whatever the order of the
\* rows.
C26_RankingNames ==
    last.op = "list_win_ranking" =>
        \A i \in DOMAIN last.out :
            LET code == db_player_standings(matches, WinnerCodes)[i][1]
            IN IF \E r \in players : r.code = code
               THEN \E r \in players : r.code = code /\ last.out[i][2] = r.name
               ELSE last.out[i][2] = PlayerDeleted

\* C27: every step leaves the audit log as it was or longer with the old log
\* as its beginning: no entry is removed, moved or rewritten.
C27_AuditAppendOnly ==
    [][/\ Len(auditlog') >= Len(auditlog)
       /\ SubSeq(auditlog', 1, Len(auditlog)) = auditlog]_vars

C27_Witness ==
    /\ last.op = "display_log"
    /\ last.args = <<"Yes">>
    /\ Len(auditlog) >= 11
    /\ last.out = SubSeq(auditlog, 1, Len(auditlog) - 4)

\* C28: the first table of display_log holds the min(20, length) most recent
\* entries of the log, and the table shown on "Yes" holds every entry of the
\* log, however long the log is.
C28_AuditList ==
    last.op = "display_log_rows" =>
        LET n == last.args[1]
            first == last.out[1]
            all == last.out[2]
        IN /\ first[2] = n + 1
           /\ first[2] - first[1] + 1 = (IF n + 1 < LogCount THEN n + 1 ELSE LogCount)
           /\ last.args[2] = "Yes" => all = <<1, n + 6>>

\* C29: every stored player has a name without digit and without disallowed
\* symbol, of at least 2 characters and at least two words.
C29_StoredNamesValid ==
    \A r \in players : ViolatedRules(r.name) = {}

YesAnswers == {"Yes", "Y", "y"}

\* C31: the rounds of a swiss matchup are run only after a confirming
\* answer.  Any other answer ends the command with the players and matches
\* tables as they were.  After a confirming answer the rounds take the
\* matchups in list order, numbered 1, 2, 3, ..., each round that goes
\* through writes the one match row of its matchup, and the command ends
\* after the last matchup of the list.
C31_RunOnConfirmation ==
    [][/\ (last'.op = "swiss_answer" /\ last'.args[1] \notin YesAnswers)
            => /\ swiss_pc' = "idle"
               /\ players' = players
               /\ matches' = matches
               /\ match_seq' = match_seq
       /\ (swiss_pc # "running" /\ swiss_pc' = "running")
            => /\ last'.op = "swiss_answer"
               /\ last'.args[1] \in YesAnswers
               /\ round_number' = 0
               /\ players' = players
               /\ matches' = matches
       /\ last'.op = "swiss_round"
            => LET i == round_number + 1
                   list == Zip(players_list1, players_list2)
               IN /\ swiss_pc = "running"
                  /\ i \in DOMAIN list
                  /\ last'.args = <<i, Str(list[i][1].id), Str(list[i][2].id)>>
                  /\ players' = players
                  /\ last'.raised = ""
                       => /\ \E m \in matches' :
                               /\ matches' = matches \cup {m}
                               /\ m \notin matches
                               /\ m.p1 = Str(list[i][1].id)
                               /\ m.p2 = Str(list[i][2].id)
                          /\ IF i < Len(list)
                             THEN swiss_pc' = "running" /\ round_number' = i
                             ELSE swiss_pc' = "idle"]_vars

C31_Witness ==
    /\ last.op = "swiss_round"
    /\ last.raised = ""
    /\ last.args = <<2, "2", "1">>
    /\ swiss_pc = "idle"
    /\ {<<m.id, m.p1, m.p2>> : m \in matches} = {<<1, "1", "2">>, <<2, "2", "1">>}

\* C32: a match row stays as it was created.  Across every step, each row of
\* the matches table is still in the table with the same id, player ids,
\* winner code and timestamp, unless the step is delete_match with the id of
\* that row; and no step puts a second row under the id of an existing one.
C32_MatchRowsKept ==
    [][\A m \in matches :
          /\ \/ m \in matches'
             \/ /\ last'.op = "delete_match"
                /\ last'.raised = ""
                /\ ParseInt(last'.args[1]) = m.id
          /\ \A n \in matches' : n.id = m.id => n = m]_vars

C32_Witness ==
    /\ last.op = "edit_player"
    /\ last.args[1] = "delete"
    /\ last.raised = ""
    /\ \E m \in matches :
         /\ m.p1 = last.args[2]
         /\ \A r \in players : r.code # m.winner

\* the player row with this id
PlayerById(tbl, player) == CHOOSE r \in tbl : r.id = ParseInt(player)

\* C33: after an edit of a player goes through, the player has the code they
\* had before; every row of the match listing for a match won under that
\* code and the row of the win ranking for that code show the new name; and
\* the ranking row has the win count it had before the edit.
C33_EditKeepsWins ==
    [][(last'.op = "edit_player" /\ last'.args[1] = "edit" /\ last'.raised = "")
       => LET player == last'.args[2]
              code == PlayerById(players, player).code
              standings == db_player_standings(matches', {m.winner : m \in matches'})
              before == RankingTable(players,
                            db_player_standings(matches, {m.winner : m \in matches}),
                            <<>>, <<>>)
              ranking == RankingTable(players', standings, <<>>, <<>>)
              results == db_search_matches_ALL(matches')
              listing == MatchTable(players', results, <<>>, FALSE, <<>>)
          IN /\ PlayerById(players', player).code = code
             /\ \A i \in DOMAIN standings :
                   standings[i][1] = code
                       => /\ ranking[i][2] = last'.args[3]
                          /\ ranking[i][3] = before[i][3]
             /\ (\E m \in matches' : m.winner = code)
                   => /\ listing.raised = ""
                      /\ \A i \in DOMAIN results :
                            results[i].winner = code
                                => listing.rows[i][5] = last'.args[3]]_vars

\* C34: within one confirmed swiss run no two rounds are between the same two
\* players, and no player takes part in two rounds: the matchup a round
\* passes to go_match shares no player with the matchup of an earlier round
\* of the run.
C34_NoRematch ==
    [][last'.op = "swiss_round"
       => LET list == Zip(players_list1, players_list2)
              i == round_number + 1
          IN \A j \in 1..round_number :
                /\ {list[j][1].id, list[j][2].id} # {list[i][1].id, list[i][2].id}
                /\ {list[j][1].id, list[j][2].id}
                       \cap {list[i][1].id, list[i][2].id} = {}]_vars

\* C35: a call of new_player, edit_player (delete or edit) or go_match that
\* raises leaves the players table and the matches table exactly as they were
\* before the call.
C35_FailedCallFrame ==
    [][(last'.op \in {"new_player", "edit_player", "go_match"} /\ last'.raised # "")
       => /\ players' = players
          /\ matches' = matches]_vars

C35_Witness ==
    /\ last.op = "go_match"
    /\ last.raised = "ValueError"
    /\ PlayerExists(last.args[1])
    /\ ~ PlayerExists(last.args[2])
    /\ Cardinality(matches) = 1

==========================================================================
